---- MODULE Spec2Model ----
(***************************************************************************)
(* The React client of the AI finance assistant (frontend/src/App.js):     *)
(* the component state, its event handlers, and the asynchronous tasks     *)
(* (fetchExpenses, addExpenseToBackend, sendQueryToBackend) whose awaits   *)
(* interleave with the handlers.  The backend is the environment: each     *)
(* await is resolved or rejected by a separate step.                       *)
(***************************************************************************)
EXTENDS Integers, Sequences, FiniteSets, TLC

VARIABLES
    expenses,    \* useState([])    list of [category, amount]
    messages,    \* useState([])    list of [role, content]
    query,       \* useState('')    text of the chat input
    newExpense,  \* useState({amount:'', category:'', description:''})
    loading,     \* useState(false)
    activeTab,   \* useState('chat')
    fetchTasks,  \* running calls of fetchExpenses, oldest first; each records
                 \* whether a call started after it has already set expenses
    addTasks,    \* running calls of addExpenseToBackend
    queryTasks,  \* running calls of sendQueryToBackend
    alerts,      \* the alert() dialogs shown so far
    lastHandler  \* the submit handler the last step ran, "none" for any other step

vars == <<expenses, messages, query, newExpense, loading, activeTab,
          fetchTasks, addTasks, queryTasks, alerts, lastHandler>>

-----------------------------------------------------------------------------
(* Bounds of the model *)

\* questions submitted in one session
MaxQueries == 2
\* calls of fetchExpenses running at the same time
MaxFetch == 2
\* add-expense submissions running or already notified
MaxAdds == 1
\* significand width of the modelled floating-point numbers (IEEE double: 53)
MantissaBits == 3

-----------------------------------------------------------------------------
(* JavaScript values *)

Str(s) == [t |-> "string", v |-> s]
Num(n) == [t |-> "number", v |-> n]
Undefined == [t |-> "undefined"]
Null == [t |-> "null"]
NaN == [t |-> "NaN"]

\* String.prototype.trim on the texts the model types
Trim(s) == IF s \in {"", " "} THEN "" ELSE s

\* parseFloat on the texts the amount field can hold
ParseFloat(s) == IF s = "" THEN NaN ELSE IF s = "8" THEN Num(8) ELSE Num(1)

\* JSON.stringify of a number: NaN is written as null
JsonNumber(x) == IF x = NaN THEN Null ELSE x

RECURSIVE Pow2(_)
Pow2(n) == IF n = 0 THEN 1 ELSE 2 * Pow2(n - 1)

\* round a non-negative real to the nearest number with MantissaBits
\* significant bits, ties to even (the rounding of every float operation)
RECURSIVE RoundAt(_, _)
RoundAt(n, u) ==
    IF n < Pow2(MantissaBits) * u
    THEN LET q == n \div u
             r == n % u
         IN  IF 2 * r > u \/ (2 * r = u /\ q % 2 = 1) THEN (q + 1) * u ELSE q * u
    ELSE RoundAt(n, 2 * u)

\* the + of two numbers
JsAdd(a, b) == RoundAt(a + b, 1)

RemoveAt(s, i) == SubSeq(s, 1, i - 1) \o SubSeq(s, i + 1, Len(s))

-----------------------------------------------------------------------------
(* The environment: what the user types and what the backend replies *)

UserId == "user_1"
ApologyText == "Sorry, I encountered an error processing your request."
Suggestions == {"Summarize my monthly spending"}
QueryInputs == {"", " ", "How much did I spend on food?"}
AmountInputs == {"", "8"}
CategoryInputs == {"", "Food"}
DescriptionInputs == {"", "lunch"}
Tabs == {"chat", "expenses", "analytics"}

Categories == {"Food", "Transport"}
Amounts == {1, 8}
Expense == [category : Categories, amount : Amounts]

\* the expense lists the backend returns while the whole client runs
LedgerSamples == {<<>>, <<[category |-> "Food", amount |-> 8]>>}
\* every expense list of up to three entries
ExpenseLists == {<<>>} \cup [1..1 -> Expense] \cup [1..2 -> Expense] \cup [1..3 -> Expense]

\* the answer the backend gives to a question
BackendAnswer(q) == "re: " \o q

\* bodies of a reply to /get-expenses: unreadable, null, an object without
\* the expenses field, an object with it
ExpensesBodies(lists) ==
    {[kind |-> "invalid"], [kind |-> "null"], [kind |-> "object", has |-> FALSE, expenses |-> <<>>]}
    \cup {[kind |-> "object", has |-> TRUE, expenses |-> l] : l \in lists}

\* replies to /query: the answer, an error status with a body that lacks the
\* response field, a null response field, a null body, an unreadable body
QueryResponses(q) ==
    { [ok |-> TRUE,  body |-> [kind |-> "object", response |-> Str(BackendAnswer(q))]],
      [ok |-> FALSE, body |-> [kind |-> "object", response |-> Undefined]],
      [ok |-> TRUE,  body |-> [kind |-> "object", response |-> Null]],
      [ok |-> TRUE,  body |-> [kind |-> "null"]],
      [ok |-> FALSE, body |-> [kind |-> "invalid"]] }

-----------------------------------------------------------------------------
(* Requests *)

NoFields == <<>>

GetExpensesRequest ==
    [method |-> "GET", path |-> "/get-expenses", params |-> NoFields, body |-> NoFields]

AddExpenseRequest(form) ==
    [method |-> "POST", path |-> "/add-expense", params |-> NoFields,
     body |-> [user_id |-> UserId,
               amount |-> JsonNumber(ParseFloat(form.amount)),
               category |-> form.category,
               description |-> form.description,
               date |-> "now"]]

QueryRequest(queryText) ==
    [method |-> "POST", path |-> "/query", params |-> NoFields,
     body |-> [user_id |-> UserId, query |-> queryText]]

-----------------------------------------------------------------------------
(* Initial state: the first render, after the mount effect has called      *)
(* fetchExpenses                                                           *)

EmptyForm == [amount |-> "", category |-> "", description |-> ""]

\* fetchExpenses() up to its first await: the request is sent
fetchExpensesCall(tasks) ==
    Append(tasks, [pc |-> "fetch", req |-> GetExpensesRequest, superseded |-> FALSE])

Init ==
    /\ expenses = <<>>
    /\ messages = <<>>
    /\ query = ""
    /\ newExpense = EmptyForm
    /\ loading = FALSE
    /\ activeTab = "chat"
    /\ fetchTasks = fetchExpensesCall(<<>>)
    /\ addTasks = <<>>
    /\ queryTasks = <<>>
    /\ alerts = <<>>
    /\ lastHandler = "none"

-----------------------------------------------------------------------------
(* fetchExpenses *)

\* await fetch(...) resolves (the status is not looked at)
FetchResolve(i) ==
    /\ fetchTasks[i].pc = "fetch"
    /\ fetchTasks' = [fetchTasks EXCEPT ![i].pc = "json"]
    /\ UNCHANGED <<expenses, messages, query, newExpense, loading, activeTab,
                   addTasks, queryTasks, alerts>>
    /\ lastHandler' = "none"

\* await fetch(...) rejects: caught and logged
FetchReject(i) ==
    /\ fetchTasks[i].pc = "fetch"
    /\ fetchTasks' = RemoveAt(fetchTasks, i)
    /\ UNCHANGED <<expenses, messages, query, newExpense, loading, activeTab,
                   addTasks, queryTasks, alerts>>
    /\ lastHandler' = "none"

\* data.expenses || [] of a body that was read
ExpensesOf(body) == IF body.has THEN body.expenses ELSE <<>>

\* call i has set expenses: it is done, and the calls started before it that
\* still run are now older than the list on display
Delivered(tasks, i) ==
    RemoveAt([k \in 1..Len(tasks) |->
                 IF k < i THEN [tasks[k] EXCEPT !.superseded = TRUE] ELSE tasks[k]], i)

\* await response.json() settles with the body; setExpenses(data.expenses || [])
FetchJson(i, body) ==
    /\ fetchTasks[i].pc = "json"
    /\ fetchTasks' = IF body.kind = "object" THEN Delivered(fetchTasks, i)
                                              ELSE RemoveAt(fetchTasks, i)
    /\ expenses' = IF body.kind = "object" THEN ExpensesOf(body) ELSE expenses
    /\ UNCHANGED <<messages, query, newExpense, loading, activeTab,
                   addTasks, queryTasks, alerts>>
    /\ lastHandler' = "none"

-----------------------------------------------------------------------------
(* The chat *)

\* a bug: the new turn is put in front, prev => [message, ...prev]
AppendTurnInFront(prev, message) == <<message>> \o prev

\* a bug: only the newest three turns are kept, [...prev, message].slice(-3)
AppendTurnCapped(prev, message) ==
    LET all == Append(prev, message)
    IN  IF Len(all) > 3 THEN SubSeq(all, Len(all) - 2, Len(all)) ELSE all

\* the updater prev => [...prev, message] given to setMessages
AppendTurn(prev, message) == Append(prev, message)

UserMessage(text) == [role |-> "user", content |-> Str(text)]
AiMessage(content) == [role |-> "assistant", content |-> content]

\* a bug: the raw error text is shown, content: error.message
ErrorMessageRaw == [role |-> "assistant", content |-> Str("Failed to fetch")]

ErrorMessage == [role |-> "assistant", content |-> Str(ApologyText)]

\* a bug: input and button are not disabled while loading
ChatFormNeverDisabled == activeTab = "chat"

\* what the chat form lets through: it is rendered on the chat tab, and its
\* input and button are disabled while loading
ChatFormEnabled == activeTab = "chat" /\ ~loading

\* onChange of the chat input
OnQueryChange(v) ==
    /\ ChatFormEnabled
    /\ query' = v
    /\ lastHandler' = "none"
    /\ UNCHANGED <<expenses, messages, newExpense, loading, activeTab,
                   fetchTasks, addTasks, queryTasks, alerts>>

\* the suggestion buttons, shown while there are no messages
handleSuggestionClick(suggestion) ==
    /\ activeTab = "chat"
    /\ Len(messages) = 0
    /\ query' = suggestion
    /\ lastHandler' = "none"
    /\ UNCHANGED <<expenses, messages, newExpense, loading, activeTab,
                   fetchTasks, addTasks, queryTasks, alerts>>

\* sendQueryToBackend(queryText) up to its first await: the request is sent
sendQueryToBackendCall(tasks, queryText) ==
    Append(tasks, [pc |-> "fetch", req |-> QueryRequest(queryText), queryText |-> queryText,
                   response |-> Null])

\* a bug: the text is not trimmed, if (!query) return
QueryRejectedNoTrim(text) == text = ""

\* if (!query.trim()) return
QueryRejected(text) == Trim(text) = ""

IsUserTurn(m) == m.role = "user"
NumUserTurns == Len(SelectSeq(messages, IsUserTurn))

handleQuery ==
    /\ lastHandler' = "handleQuery"
    /\ IF QueryRejected(query)
       THEN UNCHANGED <<messages, query, loading, queryTasks>>
       ELSE /\ NumUserTurns < MaxQueries
            /\ messages' = AppendTurn(messages, UserMessage(query))
            /\ query' = ""
            /\ loading' = TRUE
            /\ queryTasks' = sendQueryToBackendCall(queryTasks, query)
    /\ UNCHANGED <<expenses, newExpense, activeTab, fetchTasks, addTasks, alerts>>

\* onKeyPress: e.key === 'Enter' && !loading && handleQuery(e)
OnEnterKey == ChatFormEnabled /\ handleQuery

\* onClick of the send button
OnSendClick == ChatFormEnabled /\ handleQuery

\* await fetch(...) resolves with a reply
QueryFetchResolve(i, resp) ==
    /\ queryTasks[i].pc = "fetch"
    /\ queryTasks' = [queryTasks EXCEPT ![i].pc = "json", ![i].response = resp]
    /\ UNCHANGED <<expenses, messages, query, newExpense, loading, activeTab,
                   fetchTasks, addTasks, alerts>>
    /\ lastHandler' = "none"

\* a bug: loading is cleared at the end of the try block only, not in finally
QueryFetchRejectNoFinally(i) ==
    /\ queryTasks[i].pc = "fetch"
    /\ queryTasks' = RemoveAt(queryTasks, i)
    /\ messages' = Append(messages, [role |-> "assistant", content |-> Str(ApologyText)])
    /\ UNCHANGED <<expenses, query, newExpense, loading, activeTab,
                   fetchTasks, addTasks, alerts>>
    /\ lastHandler' = "none"

\* await fetch(...) rejects: catch appends the apology, finally clears loading
QueryFetchReject(i) ==
    /\ queryTasks[i].pc = "fetch"
    /\ queryTasks' = RemoveAt(queryTasks, i)
    /\ messages' = AppendTurn(messages, ErrorMessage)
    /\ loading' = FALSE
    /\ UNCHANGED <<expenses, query, newExpense, activeTab,
                   fetchTasks, addTasks, alerts>>
    /\ lastHandler' = "none"

\* response.json() rejects, or data is null and data.response throws
BodyThrows(body) == body.kind \in {"invalid", "null"}

\* await response.json() settles: the try block's rest, or catch; then finally
QueryJson(i) ==
    /\ queryTasks[i].pc = "json"
    /\ queryTasks' = RemoveAt(queryTasks, i)
    /\ IF BodyThrows(queryTasks[i].response.body)
       THEN /\ messages' = AppendTurn(messages, ErrorMessage)
            /\ UNCHANGED fetchTasks
       ELSE /\ Len(fetchTasks) < MaxFetch
            /\ messages' = AppendTurn(messages, AiMessage(queryTasks[i].response.body.response))
            /\ fetchTasks' = fetchExpensesCall(fetchTasks)
    /\ loading' = FALSE
    /\ UNCHANGED <<expenses, query, newExpense, activeTab, addTasks, alerts>>
    /\ lastHandler' = "none"

-----------------------------------------------------------------------------
(* The add-expense form *)

OnAmountChange(v) ==
    /\ activeTab = "expenses"
    /\ newExpense' = [newExpense EXCEPT !.amount = v]
    /\ lastHandler' = "none"
    /\ UNCHANGED <<expenses, messages, query, loading, activeTab,
                   fetchTasks, addTasks, queryTasks, alerts>>

OnCategoryChange(v) ==
    /\ activeTab = "expenses"
    /\ newExpense' = [newExpense EXCEPT !.category = v]
    /\ lastHandler' = "none"
    /\ UNCHANGED <<expenses, messages, query, loading, activeTab,
                   fetchTasks, addTasks, queryTasks, alerts>>

OnDescriptionChange(v) ==
    /\ activeTab = "expenses"
    /\ newExpense' = [newExpense EXCEPT !.description = v]
    /\ lastHandler' = "none"
    /\ UNCHANGED <<expenses, messages, query, loading, activeTab,
                   fetchTasks, addTasks, queryTasks, alerts>>

\* addExpenseToBackend() up to its first await: the request is sent
addExpenseToBackendCall(tasks, form) ==
    Append(tasks, [pc |-> "fetch", req |-> AddExpenseRequest(form)])

\* onClick of the Add Expense button
handleAddExpense ==
    /\ activeTab = "expenses"
    /\ Len(addTasks) + Len(alerts) < MaxAdds
    /\ addTasks' = addExpenseToBackendCall(addTasks, newExpense)
    /\ lastHandler' = "handleAddExpense"
    /\ UNCHANGED <<expenses, messages, query, newExpense, loading, activeTab,
                   fetchTasks, queryTasks, alerts>>

\* await fetch(...) resolves: on response.ok the form is cleared, the list
\* refreshed and the success alert shown; otherwise nothing happens
AddResolve(i, ok) ==
    /\ addTasks[i].pc = "fetch"
    /\ addTasks' = RemoveAt(addTasks, i)
    /\ IF ok
       THEN /\ Len(fetchTasks) < MaxFetch
            /\ newExpense' = EmptyForm
            /\ fetchTasks' = fetchExpensesCall(fetchTasks)
            /\ alerts' = Append(alerts, "Expense added successfully!")
       ELSE UNCHANGED <<newExpense, fetchTasks, alerts>>
    /\ UNCHANGED <<expenses, messages, query, loading, activeTab, queryTasks>>
    /\ lastHandler' = "none"

\* await fetch(...) rejects: the failure alert
AddReject(i) ==
    /\ addTasks[i].pc = "fetch"
    /\ addTasks' = RemoveAt(addTasks, i)
    /\ alerts' = Append(alerts, "Failed to add expense. Please try again.")
    /\ UNCHANGED <<expenses, messages, query, newExpense, loading, activeTab,
                   fetchTasks, queryTasks>>
    /\ lastHandler' = "none"

-----------------------------------------------------------------------------
(* Navigation and the analytics tab *)

setActiveTab(tab) ==
    /\ activeTab' = tab
    /\ lastHandler' = "none"
    /\ UNCHANGED <<expenses, messages, query, newExpense, loading,
                   fetchTasks, addTasks, queryTasks, alerts>>

\* categoryTotals[exp.category] = (categoryTotals[exp.category] || 0) + exp.amount
\* on the entries in insertion order
AddToTotals(totals, exp) ==
    IF \E k \in 1..Len(totals) : totals[k].name = exp.category
    THEN [k \in 1..Len(totals) |->
            IF totals[k].name = exp.category
            THEN [name |-> totals[k].name, value |-> JsAdd(totals[k].value, exp.amount)]
            ELSE totals[k]]
    ELSE Append(totals, [name |-> exp.category, value |-> JsAdd(0, exp.amount)])

RECURSIVE CategoryTotals(_, _)
CategoryTotals(exps, totals) ==
    IF exps = <<>> THEN totals
    ELSE CategoryTotals(Tail(exps), AddToTotals(totals, Head(exps)))

getCategoryData == CategoryTotals(expenses, <<>>)

RECURSIVE Reduce(_, _)
Reduce(exps, sum) ==
    IF exps = <<>> THEN sum ELSE Reduce(Tail(exps), JsAdd(sum, Head(exps).amount))

totalExpenses == Reduce(expenses, 0)

-----------------------------------------------------------------------------
(* Specifications *)

FetchSteps(lists) ==
    \E i \in 1..Len(fetchTasks) :
        \/ FetchResolve(i)
        \/ FetchReject(i)
        \/ \E body \in ExpensesBodies(lists) : FetchJson(i, body)

QuerySteps ==
    \E i \in 1..Len(queryTasks) :
        \/ \E resp \in QueryResponses(queryTasks[i].queryText) : QueryFetchResolve(i, resp)
        \/ QueryFetchReject(i)
        \/ QueryJson(i)

AddSteps ==
    \E i \in 1..Len(addTasks) :
        \/ \E ok \in BOOLEAN : AddResolve(i, ok)
        \/ AddReject(i)

ChatEvents ==
    \/ \E v \in QueryInputs : OnQueryChange(v)
    \/ \E s \in Suggestions : handleSuggestionClick(s)
    \/ OnEnterKey
    \/ OnSendClick

FormEvents ==
    \/ \E v \in AmountInputs : OnAmountChange(v)
    \/ \E v \in CategoryInputs : OnCategoryChange(v)
    \/ \E v \in DescriptionInputs : OnDescriptionChange(v)
    \/ handleAddExpense

Navigate == \E tab \in Tabs : setActiveTab(tab)

Next ==
    \/ FetchSteps(LedgerSamples)
    \/ QuerySteps
    \/ AddSteps
    \/ ChatEvents
    \/ FormEvents
    \/ Navigate

Spec == Init /\ [][Next]_vars

\* the chat alone: its events, its requests, the refreshes they start, navigation
ChatNext ==
    \/ FetchSteps(LedgerSamples)
    \/ QuerySteps
    \/ ChatEvents
    \/ Navigate

ChatSpec == Init /\ [][ChatNext]_vars

\* every request eventually completes or fails
LiveSpec ==
    /\ Init /\ [][ChatNext]_vars
    /\ WF_vars(QuerySteps)
    /\ WF_vars(FetchSteps(LedgerSamples))

\* the analytics tab over every expense list the backend may return
AggNext ==
    \/ FetchSteps(ExpenseLists)
    \/ Navigate

AggSpec == Init /\ [][AggNext]_vars

\* the expenses tab alone: the form, its requests, the refreshes, navigation
ExpenseNext ==
    \/ FetchSteps(LedgerSamples)
    \/ AddSteps
    \/ FormEvents
    \/ Navigate

ExpenseSpec == Init /\ [][ExpenseNext]_vars

-----------------------------------------------------------------------------
(* Properties *)

IsPrefix(s, t) == Len(s) <= Len(t) /\ SubSeq(t, 1, Len(s)) = s
Last(s) == s[Len(s)]
\* a text with nothing but white space in it
IsBlank(text) == text \in {"", " "}
HasField(fields, name) == name \in DOMAIN fields
Scoped(req) == HasField(req.body, "user_id") \/ HasField(req.params, "user_id")

\* C1: every request that reads or writes a user's financial data
\* (GET /get-expenses, POST /add-expense, POST /query) carries the user_id
\* it is scoped to.
EveryRequestCarriesUserId ==
    /\ \A i \in 1..Len(fetchTasks) : Scoped(fetchTasks[i].req)
    /\ \A i \in 1..Len(addTasks) : Scoped(addTasks[i].req)
    /\ \A i \in 1..Len(queryTasks) : Scoped(queryTasks[i].req)

\* C2: the conversation is append-only: in every step the previous list of
\* turns is a prefix of the new one, and a conversation that is not empty
\* never becomes empty again.
MessagesAppendOnly ==
    [][IsPrefix(messages, messages') /\ (messages # <<>> => messages' # <<>>)]_vars

\* C2 happens: a conversation that grew turn by turn past its first exchange
MessagesGrew == Len(messages) >= 3

\* the request of running call i fails: fetch rejects, or the body cannot be read
QueryFails(i) ==
    /\ queryTasks' = RemoveAt(queryTasks, i)
    /\ \/ queryTasks[i].pc = "fetch"
       \/ queryTasks[i].pc = "json" /\ queryTasks[i].response.body.kind \in {"invalid", "null"}

\* C3: when the request of a submitted question fails, the request is not
\* sent again (at most one retry is allowed, none is made), exactly one
\* assistant turn holding the fixed apology is appended, and the user's own
\* turn stays in the conversation right before it.
FailureEndsInApology ==
    [][\A i \in 1..Len(queryTasks) :
          QueryFails(i) =>
              /\ Len(messages) >= 1
              /\ messages' = Append(messages, [role |-> "assistant", content |-> Str(ApologyText)])
              /\ Last(messages) = [role |-> "user", content |-> Str(queryTasks[i].queryText)]
              /\ \A j \in 1..Len(queryTasks') : queryTasks'[j].queryText # queryTasks[i].queryText
                                               \/ j < i]_vars

\* C3 happens: a question whose request failed, followed by the apology
FailureApologized ==
    /\ Len(messages) = 2
    /\ messages[1].role = "user"
    /\ messages[2] = [role |-> "assistant", content |-> Str(ApologyText)]
    /\ queryTasks = <<>>

\* C4: every non-empty question submitted eventually has exactly one
\* assistant turn appended after it, and loading eventually returns to false,
\* provided the request eventually completes or fails.
EveryQuestionAnswered ==
    \A n \in 1..MaxQueries :
        (NumUserTurns = n /\ loading)
            ~> (/\ ~loading
                /\ NumUserTurns = n
                /\ Len(messages) = 2 * n
                /\ messages[2 * n].role = "assistant"
                /\ messages[2 * n - 1].role = "user")

\* C4 happens: a question was submitted, answered, and loading is false again
QuestionAnswered ==
    /\ ~loading
    /\ Len(messages) = 2
    /\ messages[2].role = "assistant"
    /\ queryTasks = <<>>

\* the contents an assistant turn can have as the outcome of the request for
\* a question: the backend's reply to it, or the apology
OutcomesOf(question) ==
    {Str(ApologyText), Str(BackendAnswer(question)), Undefined, Null}

\* C5: while a question awaits its answer no further question is submitted,
\* so user and assistant turns strictly alternate starting with a user turn,
\* and the k-th assistant turn is the outcome of the k-th user turn's request.
SubmissionSerialized ==
    /\ Len(queryTasks) = (IF loading THEN 1 ELSE 0)
    /\ \A k \in 1..Len(messages) :
          messages[k].role = (IF k % 2 = 1 THEN "user" ELSE "assistant")
    /\ loading => /\ Len(messages) % 2 = 1
                  /\ Last(messages).content = Str(queryTasks[1].queryText)
    /\ ~loading => Len(messages) % 2 = 0
    /\ \A k \in 1..Len(messages) :
          k % 2 = 0 => messages[k].content \in OutcomesOf(messages[k - 1].content.v)

\* C5 happens: two different questions were asked and answered in turn
TwoQuestionsAnswered ==
    /\ Len(messages) = 4
    /\ ~loading
    /\ messages[1].content # messages[3].content
    /\ messages[2].content = Str(BackendAnswer(messages[1].content.v))
    /\ messages[4].content = Str(BackendAnswer(messages[3].content.v))

\* C6: every assistant turn carries defined text that is either the answer
\* text returned by the backend or the fixed apology, also when the backend
\* replies with an error status or with a body that lacks the answer field.
AssistantTurnsHaveText ==
    \A k \in 1..Len(messages) :
        messages[k].role = "assistant" =>
            /\ k > 1
            /\ messages[k].content
                  \in {Str(ApologyText), Str(BackendAnswer(messages[k - 1].content.v))}

\* a cap below the number of turns a session of MaxQueries questions produces
HistoryCap == 2 * MaxQueries - 1

\* C7 as claimed: the number of retained turns never exceeds the cap.
HistoryBounded == Len(messages) <= HistoryCap

\* C7 as amended: the client keeps the whole conversation: every
\* step that changes it adds exactly one turn at the end, and the oldest
\* turn is never dropped.
HistoryNeverTruncated ==
    [][messages' # messages =>
          /\ Len(messages') = Len(messages) + 1
          /\ messages # <<>> => messages'[1] = messages[1]]_vars

\* C7 happens: more turns are retained than the cap allows
HistoryBeyondCap == Len(messages) > HistoryCap /\ messages[1].role = "user"

RECURSIVE ExactSum(_)
ExactSum(amounts) == IF amounts = <<>> THEN 0 ELSE Head(amounts) + ExactSum(Tail(amounts))
AmountsOf(exps) == [k \in 1..Len(exps) |-> exps[k].amount]
ValuesOf(entries) == [k \in 1..Len(entries) |-> entries[k].value]
InCategory(exps, c) == SelectSeq(exps, LAMBDA e : e.category = c)

\* C8: aggregation by category is exact: getCategoryData has exactly one
\* entry per category that has an expense, its value is the sum of the
\* amounts of exactly the expenses of that category, and the values of all
\* categories add up to totalExpenses.
AggregationExact ==
    LET data == getCategoryData
    IN  /\ {data[k].name : k \in 1..Len(data)} = {expenses[k].category : k \in 1..Len(expenses)}
        /\ \A j, k \in 1..Len(data) : data[j].name = data[k].name => j = k
        /\ \A k \in 1..Len(data) :
              data[k].value = ExactSum(AmountsOf(InCategory(expenses, data[k].name)))
        /\ ExactSum(ValuesOf(data)) = totalExpenses

\* C9 as claimed: a blank question that is submitted is processed as a
\* query: a turn is appended and a request is sent.
BlankQuestionAnswered ==
    [][(lastHandler' = "handleQuery" /\ IsBlank(query)) =>
          /\ Len(messages') = Len(messages) + 1
          /\ Len(queryTasks') = Len(queryTasks) + 1]_vars

\* C9 as amended: a blank question (empty or white space only) is
\* dropped by handleQuery: no turn is appended, no request is sent, and the
\* input, the loading flag and the conversation stay as they are; no request
\* and no user turn ever holds a blank question.
BlankQuestionDropped ==
    /\ [](/\ \A i \in 1..Len(queryTasks) : ~IsBlank(queryTasks[i].queryText)
          /\ \A k \in 1..Len(messages) :
                messages[k].role = "user" => ~IsBlank(messages[k].content.v))
    /\ [][(lastHandler' = "handleQuery" /\ IsBlank(query)) =>
             UNCHANGED <<messages, queryTasks, loading, query>>]_vars

\* C9 happens: a question of white space only was just submitted, and nothing
\* came of it
BlankJustSubmitted ==
    /\ lastHandler = "handleQuery"
    /\ query = " "
    /\ messages = <<>>
    /\ queryTasks = <<>>
    /\ ~loading

\* C10: every query request carries the three fields user_id, session_id and
\* the question text.
QueryCarriesSession ==
    \A i \in 1..Len(queryTasks) :
        /\ HasField(queryTasks[i].req.body, "user_id")
        /\ HasField(queryTasks[i].req.body, "session_id")
        /\ HasField(queryTasks[i].req.body, "query")

\* C11: refreshes can overlap, and the response of an older refresh never
\* overwrites that of a newer one: a refresh that ends after a refresh started
\* later has already set the list leaves the displayed expenses as they are
\* (so that, once all have ended, the list is that of the most recently
\* issued refresh); a refresh changes the list only in the step that ends it.
NewestRefreshWins ==
    [][/\ \A i \in 1..Len(fetchTasks) :
             (fetchTasks[i].superseded /\ fetchTasks' = RemoveAt(fetchTasks, i))
                 => expenses' = expenses
       /\ Len(fetchTasks') >= Len(fetchTasks) => expenses' = expenses]_vars

SuccessAlert == "Expense added successfully!"
FailureAlert == "Failed to add expense. Please try again."

\* C12: every add-expense submission whose request completes gives exactly
\* one notification that matches the outcome: the success alert, with the
\* form cleared and the list refreshed, when the backend accepted the expense,
\* and the failure alert, with the form left unchanged, in every other case
\* (network error or non-OK response).
AddOutcomeNotified ==
    [][\A i \in 1..Len(addTasks) :
          addTasks' = RemoveAt(addTasks, i) =>
              /\ Len(alerts') = Len(alerts) + 1
              /\ SubSeq(alerts', 1, Len(alerts)) = alerts
              /\ Last(alerts') \in {SuccessAlert, FailureAlert}
              /\ Last(alerts') = SuccessAlert =>
                    /\ newExpense' = EmptyForm
                    /\ Len(fetchTasks') = Len(fetchTasks) + 1
              /\ Last(alerts') = FailureAlert =>
                    /\ newExpense' = newExpense
                    /\ fetchTasks' = fetchTasks]_vars

\* a form with one of its required fields empty
Incomplete(form) == form.amount = "" \/ form.category = "" \/ form.description = ""

\* C13: an add-expense request is sent only when amount, category and
\* description are all filled in; when any of them is empty, handleAddExpense
\* sends no request and changes no state.
AddNeedsAllFields ==
    /\ [](\A i \in 1..Len(addTasks) :
             /\ addTasks[i].req.body.amount # Null
             /\ addTasks[i].req.body.category # ""
             /\ addTasks[i].req.body.description # "")
    /\ [][(lastHandler' = "handleAddExpense" /\ Incomplete(newExpense)) =>
             UNCHANGED <<addTasks, newExpense, alerts, fetchTasks, expenses>>]_vars

====
